---- MODULE Spec2Model ----
(***************************************************************************)
(* Model of crm-user-sync.py: the webhook handler (do_POST), the purchase  *)
(* processor (process_purchase), the remote user client                    *)
(* (request_with_retry, create_user, update_user) and the sales ledger     *)
(* (append_to_sales_csv, get_sales_row_count).                             *)
(*                                                                         *)
(* The server is http.server.HTTPServer: serve_forever takes one           *)
(* connection at a time from the listen backlog and runs its handler to    *)
(* the end before it takes the next one.  The model therefore has one      *)
(* handler (its position is pc) and a count of connections that wait.      *)
(***************************************************************************)
EXTENDS Integers, Sequences, FiniteSets, TLC

\* ------------------------------------------------------------------ bounds
\* Connections the clients open in one run of the model.
MaxRequests == 2
\* Connections that may wait in the listen backlog while the handler runs.
MaxPending == 1

\* ------------------------------------------------------- program constants
\* for attempt in range(3)
MaxAttempts == 3

\* os.getenv("MYPLATFORM_DEFAULT_PLAN", "free")
DEFAULT_PLAN == "free"

\* txn.get("product_name", "Unknown Product")
UnknownProduct == "Unknown Product"

\* Python's None (a missing key read with dict.get).
None == "<None>"

\* datetime.utcnow().isoformat(): the processing time, one fixed stamp here.
utcnow_isoformat == "2026-01-01T00:00:00"

\* A product name with one line break inside it.
TwoLineProduct == "CRM<LF>Pro"

\* header = ["date", "email", "product", "amount", "plan"]
header == <<"date", "email", "product", "amount", "plan">>

\* ------------------------------------------------------------ request bodies
\* A purchase object; a key that is missing has the value None.
Txn(email, product_name, amount, date, plan) ==
  [email |-> email, product_name |-> product_name, amount |-> amount,
   date |-> date, plan |-> plan]

EmptyTxn == Txn(None, None, None, None, None)

\* kind: "empty" (no bytes), "malformed" (not JSON), "array" (JSON, not an
\* object), "object".  purchase: "missing", "null" or "object" (then txn).
Body(kind, action, purchase, txn) ==
  [kind |-> kind, action |-> action, purchase |-> purchase, txn |-> txn]

Bodies ==
  { Body("empty", None, "missing", EmptyTxn),
    Body("malformed", None, "missing", EmptyTxn),
    Body("array", None, "missing", EmptyTxn),
    Body("object", None, "null", EmptyTxn),
    Body("object", "login", "missing", EmptyTxn),
    Body("object", None, "object", Txn("jane@example.com", "CRM Pro", None, None, "gold")),
    Body("object", None, "object", Txn("jane@example.com", "CRM Pro", "10", "date", None)),
    Body("object", None, "object", Txn("", None, "10", "2025-12-31", None)),
    Body("object", None, "object", Txn(None, "CRM Pro", "", None, None)),
    Body("object", None, "object", Txn("bob@example.com", TwoLineProduct, "5", "2025-12-31", None)) }

NoBody == Body("empty", None, "missing", EmptyTxn)

\* ------------------------------------------------------------ do_POST, pure
\* A decoder that takes the empty body for an empty object.
DecodeFailsEmptyAccepted(b) == b.kind = "malformed"

\* json.loads(self.rfile.read(length)) raises.
DecodeFails(b) == b.kind \in {"empty", "malformed"}

\* payload.get / txn.get raise AttributeError outside the try blocks: the
\* payload is not an object, or its "purchase" is not an object.
NormalizeRaises(b) == b.kind = "array" \/ (b.kind = "object" /\ b.purchase = "null")

\* txn = payload.get("purchase", {})
txn_of(b) == IF b.purchase = "object" THEN b.txn ELSE EmptyTxn

\* email = txn.get("email")
email_of(b) == txn_of(b).email

\* product = txn.get("product_name", "Unknown Product")
product_of(b) ==
  IF txn_of(b).product_name = None THEN UnknownProduct ELSE txn_of(b).product_name

\* amount = txn.get("amount") or "0"
amount_of(b) == IF txn_of(b).amount \in {None, ""} THEN "0" ELSE txn_of(b).amount

\* date = txn.get("date") or datetime.utcnow().isoformat()
date_of(b) == IF txn_of(b).date \in {None, ""} THEN utcnow_isoformat ELSE txn_of(b).date

\* "Plan": txn.get("plan", DEFAULT_PLAN)
plan_of(b) == IF txn_of(b).plan = None THEN DEFAULT_PLAN ELSE txn_of(b).plan

\* ------------------------------------------------------------ the ledger file
\* csv.writer writes None as the empty field.
CsvField(v) == IF v = None THEN "" ELSE v

\* rows.append([date, email, product, amount, plan]), as csv.writer writes it.
NewRow(b) ==
  <<CsvField(date_of(b)), CsvField(email_of(b)), CsvField(product_of(b)),
    CsvField(amount_of(b)), CsvField(plan_of(b))>>

\* rows = [r for r in reader if len(r)==5 and r[0] != "date"]
KeepRow(r) == Len(r) = 5 /\ r[1] # "date"

ReadRows(f) == SelectSeq(f, KeepRow)

\* Text lines one field takes beyond the first.
LineBreaks(v) == IF v = TwoLineProduct THEN 1 ELSE 0

RECURSIVE RecordLines(_)
RecordLines(r) == IF r = <<>> THEN 0 ELSE LineBreaks(Head(r)) + RecordLines(Tail(r))

\* sum(1 for _ in f): the text lines of the file.
RECURSIVE TextLines(_)
TextLines(f) ==
  IF f = <<>> THEN 0 ELSE 1 + RecordLines(Head(f)) + TextLines(Tail(f))

\* get_sales_row_count()
get_sales_row_count(exists, f) == IF ~exists THEN 0 ELSE TextLines(f) - 1

\* ------------------------------------------------------ the remote user client
\* What one requests.request attempt can give: an exception of the transport
\* (connection error, timeout) or a response of one status class.
Outcomes == {"transport", "2xx", "3xx", "4xx", "5xx"}

\* requests.request raises.
TransportRaises(o) == o = "transport"

\* resp.raise_for_status() raises: 400 <= status < 600.
raise_for_status(o) == o \in {"4xx", "5xx"}

\* A client that takes only status 200 for success and here meets a 2xx
\* that is not 200 (201 Created).
AttemptFailsUnless200(o) == TransportRaises(o) \/ raise_for_status(o) \/ o = "2xx"

\* The except branch of request_with_retry is taken.
AttemptFails(o) == TransportRaises(o) \/ raise_for_status(o)

\* The loop gives up one attempt early.
IsLastAttemptEarly(attempt) == attempt = MaxAttempts - 2

\* if attempt == 2: raise
IsLastAttempt(attempt) == attempt = MaxAttempts - 1

\* A backoff that counts the retries from zero: no delay before the first one.
BackoffDelayFromZero(attempt) == 5 * attempt

\* time.sleep(0.5*(attempt+1)), in tenths of a second.
BackoffDelay(attempt) == 5 * (attempt + 1)

\* get_user_by_email(email)
get_user_by_email(email) == None

\* A processor whose else branch makes no create call.
process_purchase_calls_no_create(user) ==
  IF user # None THEN <<"update_user">> ELSE <<>>

\* process_purchase: the remote write calls it makes for a lookup result.
process_purchase_calls(user) ==
  IF user # None THEN <<"update_user">> ELSE <<"create_user">>

\* process_purchase: the action it reports.
process_purchase_action(user) == IF user # None THEN "updated" ELSE "created"

\* ------------------------------------------------------------------- state
VARIABLES
  fileExists,     \* os.path.exists(SALES_FILE)
  file,           \* the records of SALES_FILE, in file order
  pending,        \* connections waiting in the listen backlog
  arrived,        \* connections opened so far
  pc,             \* where the handler is
  body,           \* the body the handler read
  calls,          \* create_user / update_user calls of this request
  attempt,        \* loop variable of request_with_retry
  outcomes,       \* outcome of each attempt of this request
  sleeps,         \* delays slept by request_with_retry, tenths of a second
  retried,        \* "none" | "returned" | "raised": request_with_retry
  upsert,         \* "none" | "returned" | "raised": create_user/update_user
  email,          \* "none" | "sent" | "raised": send_welcome_email
  rows,           \* local rows of append_to_sales_csv
  writes,         \* completed writes of the ledger by this request
  upsertAtWrite,  \* upsert at the time of that write
  status,         \* response status sent, 0 while none was sent
  user_action,    \* "user_action" of the success body
  rows_written,   \* "rows_written" of the success body
  error,          \* "error" of the error body, None while none was sent
  ledgerBefore,   \* the ledger when the handler started
  overlapped,     \* some connection arrived while a handler was running
  appendsDone,    \* appends completed since the start
  appendsFailed,  \* appends that raised since the start
  runBase,        \* get_sales_row_count() when the current run of successes began
  runLen          \* requests answered 200 in a row since then

ledgerVars == <<fileExists, file>>
netVars == <<pending, arrived>>
retryVars == <<calls, attempt, outcomes, sleeps, retried, upsert>>
appendVars == <<rows, writes, upsertAtWrite>>
respVars == <<status, user_action, rows_written, error>>
histVars == <<appendsDone, appendsFailed>>
runVars == <<runBase, runLen>>

vars == <<fileExists, file, pending, arrived, pc, body, calls, attempt, outcomes,
          sleeps, retried, upsert, email, rows, writes, upsertAtWrite, status,
          user_action, rows_written, error, ledgerBefore, overlapped, appendsDone, appendsFailed,
          runBase, runLen>>

Ledger == [exists |-> fileExists, records |-> file]

Init ==
  /\ fileExists = FALSE
  /\ file = <<>>
  /\ pending = 0
  /\ arrived = 0
  /\ pc = "idle"
  /\ body = NoBody
  /\ calls = <<>>
  /\ attempt = 0
  /\ outcomes = <<>>
  /\ sleeps = <<>>
  /\ retried = "none"
  /\ upsert = "none"
  /\ email = "none"
  /\ rows = <<>>
  /\ writes = 0
  /\ upsertAtWrite = "none"
  /\ status = 0
  /\ user_action = None
  /\ rows_written = 0
  /\ error = None
  /\ ledgerBefore = [exists |-> FALSE, records |-> <<>>]
  /\ overlapped = FALSE
  /\ appendsDone = 0
  /\ appendsFailed = 0
  /\ runBase = 0
  /\ runLen = 0

\* Ledger files left by an earlier layout, the four columns reports.py reads:
\* one with legacy rows only, one where legacy rows and a blank line stand
\* between rows of the present layout.
LegacyFiles ==
  { << <<"date", "email", "purchase_type", "amount">>,
       <<"2025-01-01", "old@example.com", "CRM Pro", "10">> >>,
    << header,
       <<"2025-02-01", "ann@example.com", "CRM Pro", "10", "free">>,
       <<"2025-01-01", "old@example.com", "CRM Pro", "10">>,
       <<>>,
       <<"2025-03-01", "bob@example.com", "CRM Pro", "5", "gold">> >> }

\* The server starts against a ledger file that exists already.
InitLegacy ==
  /\ fileExists = TRUE
  /\ file \in LegacyFiles
  /\ pending = 0
  /\ arrived = 0
  /\ pc = "idle"
  /\ body = NoBody
  /\ calls = <<>>
  /\ attempt = 0
  /\ outcomes = <<>>
  /\ sleeps = <<>>
  /\ retried = "none"
  /\ upsert = "none"
  /\ email = "none"
  /\ rows = <<>>
  /\ writes = 0
  /\ upsertAtWrite = "none"
  /\ status = 0
  /\ user_action = None
  /\ rows_written = 0
  /\ error = None
  /\ ledgerBefore = [exists |-> TRUE, records |-> file]
  /\ overlapped = FALSE
  /\ appendsDone = 0
  /\ appendsFailed = 0
  /\ runBase = get_sales_row_count(TRUE, file)
  /\ runLen = 0

\* A handler that appends to the ledger before it calls process_purchase.
NextStageAppendFirst(stage) ==
  CASE stage = "do_POST" -> "append_to_sales_csv"
    [] stage = "append_to_sales_csv" -> "process_purchase"
    [] stage = "process_purchase" -> "respond"

\* do_POST's try block runs process_purchase, then append_to_sales_csv, then
\* sends the success response: the stage that follows a stage that returned.
NextStage(stage) ==
  CASE stage = "do_POST" -> "process_purchase"
    [] stage = "process_purchase" -> "append_to_sales_csv"
    [] stage = "append_to_sales_csv" -> "respond"

\* ----------------------------------------------------------------- actions
\* A client opens a connection and posts; the connection waits in the backlog.
Connect ==
  /\ arrived < MaxRequests
  /\ pending < MaxPending
  /\ pending' = pending + 1
  /\ arrived' = arrived + 1
  /\ overlapped' = (overlapped \/ pc \notin {"idle", "done"})
  /\ UNCHANGED <<ledgerVars, pc, body, retryVars, email, appendVars, respVars,
                 ledgerBefore, histVars, runVars>>

\* serve_forever takes the next connection; the handler reads the body.
Accept ==
  /\ pc = "idle"
  /\ pending > 0
  /\ pending' = pending - 1
  /\ \E b \in Bodies : body' = b
  /\ pc' = "do_POST"
  /\ ledgerBefore' = Ledger
  /\ UNCHANGED <<ledgerVars, arrived, retryVars, email, appendVars, respVars,
                 overlapped, histVars, runVars>>

\* An except block that swallows the exception and reports success.
EndWithout200AsSuccess(code, message) ==
  /\ status' = 200
  /\ error' = None
  /\ pc' = "done"
  /\ runBase' = get_sales_row_count(fileExists', file')
  /\ runLen' = 0
  /\ UNCHANGED <<user_action, rows_written>>

\* The handler ends without the success response: self._send_error(code,
\* message), or, with code 0, an exception that leaves do_POST and sends nothing.
EndWithout200(code, message) ==
  /\ status' = code
  /\ error' = message
  /\ pc' = "done"
  /\ runBase' = get_sales_row_count(fileExists', file')
  /\ runLen' = 0
  /\ UNCHANGED <<user_action, rows_written>>

\* do_POST, the first try block: the body does not decode.
DecodeError ==
  /\ pc = "do_POST"
  /\ DecodeFails(body)
  /\ UNCHANGED <<ledgerVars, netVars, body, retryVars, email, appendVars,
                 ledgerBefore, overlapped, histVars>>
  /\ EndWithout200(400, "Invalid JSON")

\* do_POST, lines 33-45, raise outside the try blocks: no response is sent.
NormalizeError ==
  /\ pc = "do_POST"
  /\ ~DecodeFails(body)
  /\ NormalizeRaises(body)
  /\ UNCHANGED <<ledgerVars, netVars, body, retryVars, email, appendVars,
                 ledgerBefore, overlapped, histVars>>
  /\ EndWithout200(0, None)

\* do_POST, lines 33-45: the contact is built and the try block is entered.
Normalize ==
  /\ pc = "do_POST"
  /\ ~DecodeFails(body)
  /\ ~NormalizeRaises(body)
  /\ pc' = NextStage("do_POST")
  /\ UNCHANGED <<ledgerVars, netVars, body, retryVars, email, appendVars, respVars,
                 ledgerBefore, overlapped, histVars, runVars>>

\* process_purchase: the lookup and the entry into create_user or update_user.
ProcessPurchase ==
  /\ pc = "process_purchase"
  /\ calls' = process_purchase_calls(get_user_by_email(email_of(body)))
  /\ attempt' = 0
  /\ pc' = "request_with_retry"
  /\ UNCHANGED <<ledgerVars, netVars, body, outcomes, sleeps, retried, upsert,
                 email, appendVars, respVars, ledgerBefore, overlapped, histVars,
                 runVars>>

\* request_with_retry: an attempt fails and is not the last one; sleep, retry.
\* (range(3) ends the loop after the attempt with index 2.)
AttemptRetry ==
  /\ pc = "request_with_retry"
  /\ \E o \in Outcomes :
       /\ AttemptFails(o)
       /\ outcomes' = Append(outcomes, o)
  /\ ~IsLastAttempt(attempt)
  /\ attempt + 1 < MaxAttempts
  /\ sleeps' = Append(sleeps, BackoffDelay(attempt))
  /\ attempt' = attempt + 1
  /\ UNCHANGED <<ledgerVars, netVars, pc, body, calls, retried, upsert, email,
                 appendVars, respVars, ledgerBefore, overlapped, histVars, runVars>>

\* request_with_retry: the last attempt fails; the exception reaches do_POST's
\* except block.
AttemptRaise ==
  /\ pc = "request_with_retry"
  /\ \E o \in Outcomes :
       /\ AttemptFails(o)
       /\ outcomes' = Append(outcomes, o)
  /\ IsLastAttempt(attempt)
  /\ retried' = "raised"
  /\ upsert' = "raised"
  /\ UNCHANGED <<ledgerVars, netVars, body, calls, attempt, sleeps, email,
                 appendVars, ledgerBefore, overlapped, histVars>>
  /\ EndWithout200(500, "request failed")

\* request_with_retry returns the response; create_user/update_user then
\* return resp.json(), which raises when the response body is not JSON.
AttemptReturn ==
  /\ pc = "request_with_retry"
  /\ \E o \in Outcomes :
       /\ ~AttemptFails(o)
       /\ outcomes' = Append(outcomes, o)
  /\ retried' = "returned"
  /\ UNCHANGED ledgerVars
  /\ \E json_ok \in BOOLEAN :
       IF json_ok
       THEN /\ upsert' = "returned"
            /\ pc' = "send_welcome_email"
            /\ UNCHANGED <<respVars, runVars>>
       ELSE /\ upsert' = "raised"
            /\ EndWithout200(500, "response is not JSON")
  /\ UNCHANGED <<netVars, body, calls, attempt, sleeps, email,
                 appendVars, ledgerBefore, overlapped, histVars>>

\* send_welcome_email prints the message; process_purchase then returns.
SendWelcomeEmail ==
  /\ pc = "send_welcome_email"
  /\ email' = "sent"
  /\ pc' = NextStage("process_purchase")
  /\ UNCHANGED <<ledgerVars, netVars, body, retryVars, appendVars, respVars,
                 ledgerBefore, overlapped, histVars, runVars>>

\* A print of send_welcome_email raises (an encoding error on the emoji, a
\* closed stdout); process_purchase has no try block, so do_POST catches it.
SendWelcomeEmailRaises ==
  /\ pc = "send_welcome_email"
  /\ email' = "raised"
  /\ UNCHANGED <<ledgerVars, netVars, body, retryVars, appendVars,
                 ledgerBefore, overlapped, histVars>>
  /\ EndWithout200(500, "print failed")

\* append_to_sales_csv, lines 141-147: read the rows that are kept, add the new one.
AppendRead ==
  /\ pc = "append_to_sales_csv"
  /\ rows' = (IF fileExists THEN ReadRows(file) ELSE <<>>) \o <<NewRow(body)>>
  /\ pc' = "append_write"
  /\ UNCHANGED <<ledgerVars, netVars, body, retryVars, email, writes, upsertAtWrite,
                 respVars, ledgerBefore, overlapped, histVars, runVars>>

\* append_to_sales_csv, line 144: open(SALES_FILE, "r") raises.
AppendReadError ==
  /\ pc = "append_to_sales_csv"
  /\ fileExists
  /\ appendsFailed' = appendsFailed + 1
  /\ UNCHANGED <<ledgerVars, netVars, body, retryVars, email, appendVars,
                 ledgerBefore, overlapped, appendsDone>>
  /\ EndWithout200(500, "file error")

\* append_to_sales_csv, lines 148-151: the file is rewritten, header first.
AppendWrite ==
  /\ pc = "append_write"
  /\ fileExists' = TRUE
  /\ file' = <<header>> \o rows
  /\ writes' = writes + 1
  /\ upsertAtWrite' = upsert
  /\ appendsDone' = appendsDone + 1
  /\ pc' = NextStage("append_to_sales_csv")
  /\ UNCHANGED <<netVars, body, retryVars, email, rows, respVars, ledgerBefore,
                 overlapped, appendsFailed, runVars>>

\* append_to_sales_csv, line 148: open(SALES_FILE, "w") raises; nothing is
\* truncated.
AppendOpenError ==
  /\ pc = "append_write"
  /\ appendsFailed' = appendsFailed + 1
  /\ UNCHANGED <<ledgerVars, netVars, body, retryVars, email, appendVars,
                 ledgerBefore, overlapped, appendsDone>>
  /\ EndWithout200(500, "file error")

\* append_to_sales_csv, lines 148-151: open(SALES_FILE, "w") has truncated the
\* file and a write raises: the file holds the first k records that were meant.
AppendWriteError ==
  /\ pc = "append_write"
  /\ fileExists' = TRUE
  /\ \E k \in 0..Len(rows) : file' = SubSeq(<<header>> \o rows, 1, k)
  /\ appendsFailed' = appendsFailed + 1
  /\ UNCHANGED <<netVars, body, retryVars, email, appendVars, ledgerBefore,
                 overlapped, appendsDone>>
  /\ EndWithout200(500, "file error")

\* do_POST, lines 54-58: the success response.
Respond ==
  /\ pc = "respond"
  /\ status' = 200
  /\ user_action' = process_purchase_action(get_user_by_email(email_of(body)))
  /\ rows_written' = get_sales_row_count(fileExists, file)
  /\ error' = None
  /\ runLen' = runLen + 1
  /\ pc' = "done"
  /\ UNCHANGED <<ledgerVars, netVars, body, retryVars, email, appendVars,
                 ledgerBefore, overlapped, histVars, runBase>>

\* The handler returns; the server is ready for the next connection.
Finish ==
  /\ pc = "done"
  /\ pc' = "idle"
  /\ body' = NoBody
  /\ calls' = <<>>
  /\ attempt' = 0
  /\ outcomes' = <<>>
  /\ sleeps' = <<>>
  /\ retried' = "none"
  /\ upsert' = "none"
  /\ email' = "none"
  /\ rows' = <<>>
  /\ writes' = 0
  /\ upsertAtWrite' = "none"
  /\ status' = 0
  /\ user_action' = None
  /\ rows_written' = 0
  /\ error' = None
  /\ ledgerBefore' = Ledger
  /\ UNCHANGED <<ledgerVars, netVars, overlapped, histVars, runVars>>

Next ==
  \/ Connect
  \/ Accept
  \/ DecodeError
  \/ NormalizeError
  \/ Normalize
  \/ ProcessPurchase
  \/ AttemptRetry
  \/ AttemptRaise
  \/ AttemptReturn
  \/ SendWelcomeEmail
  \/ SendWelcomeEmailRaises
  \/ AppendRead
  \/ AppendReadError
  \/ AppendWrite
  \/ AppendOpenError
  \/ AppendWriteError
  \/ Respond
  \/ Finish

Spec == Init /\ [][Next]_vars

\* A step of the handler or of the server loop: every action but the arrival
\* of a connection, which is up to the clients.
HandlerStep ==
  \/ Accept
  \/ DecodeError
  \/ NormalizeError
  \/ Normalize
  \/ ProcessPurchase
  \/ AttemptRetry
  \/ AttemptRaise
  \/ AttemptReturn
  \/ SendWelcomeEmail
  \/ SendWelcomeEmailRaises
  \/ AppendRead
  \/ AppendReadError
  \/ AppendWrite
  \/ AppendOpenError
  \/ AppendWriteError
  \/ Respond
  \/ Finish

\* The server thread keeps running: each network attempt returns or times out
\* (timeout=10), each sleep ends, each file operation returns or raises.
SpecFair == Init /\ [][Next]_vars /\ WF_vars(HandlerStep)

\* The same server, started against an existing ledger file.
SpecLegacy == InitLegacy /\ [][Next]_vars

\* ------------------------------------------------------------------ claims
\* The body of the request failed to decode (no bytes, or bytes that are not JSON).
BadBody == body.kind \in {"empty", "malformed"}

\* The body decoded to an event whose purchase carries no email, or an empty one.
EmailMissing ==
  /\ body.kind = "object"
  /\ body.purchase # "null"
  /\ (body.purchase = "missing" \/ body.txn.email \in {None, ""})

EmailPresent ==
  /\ body.kind = "object"
  /\ body.purchase = "object"
  /\ body.txn.email \notin {None, ""}

\* process_purchase was entered by the request in the handler.
ProcessPurchaseRan == pc = "request_with_retry" \/ retried # "none"

\* The records of the file after its first line.
DataRows(f) == IF f = <<>> THEN <<>> ELSE Tail(f)

IsPrefix(a, b) == Len(a) <= Len(b) /\ SubSeq(b, 1, Len(a)) = a

\* An attempt that counts as failed: a transport error or an HTTP error status.
FailedAttempt(o) == o \in {"transport", "4xx", "5xx"}

\* An attempt that counts as failed when every non-2xx response does.
FailedOrNon2xx(o) == o # "2xx"

\* All three attempts of the request's remote call failed.
RetryExhausted ==
  /\ Len(outcomes) = MaxAttempts
  /\ \A i \in 1..Len(outcomes) : FailedAttempt(outcomes[i])

\* C1: a request with a non-empty email that reaches process_purchase makes
\* exactly one remote write call, create_user or update_user, never both and
\* never neither.
C1_ExactlyOneWritePath ==
  (EmailPresent /\ ProcessPurchaseRan) =>
    /\ Len(calls) = 1
    /\ calls[1] \in {"create_user", "update_user"}

C1_Witness ==
  /\ pc = "done"
  /\ status = 200
  /\ EmailPresent
  /\ calls = <<"create_user">>
  /\ retried = "returned"

\* C2: an event whose email is missing or empty is answered 400, makes no
\* attempt against the user platform and appends no ledger row.
C2_MissingEmailRejected ==
  (EmailMissing /\ pc \notin {"idle", "do_POST"}) =>
    /\ calls = <<>>
    /\ outcomes = <<>>
    /\ writes = 0
    /\ Ledger = ledgerBefore
    /\ (pc = "done" => status = 400)

\* C3: a body that is empty or is not JSON is answered 400 with an error body;
\* no remote call is made, no ledger row is appended, the ledger is unchanged.
C3_BadBodyRejected ==
  (BadBody /\ pc # "idle") =>
    /\ pc \in {"do_POST", "done"}
    /\ calls = <<>>
    /\ outcomes = <<>>
    /\ writes = 0
    /\ Ledger = ledgerBefore
    /\ (pc = "done" => (status = 400 /\ error # None))

C3_Witness ==
  /\ pc = "done"
  /\ body.kind = "empty"
  /\ status = 400
  /\ fileExists
  /\ Len(file) > 1

\* C4: once overlapping requests have all completed their appends, the ledger
\* holds the rows it had before (none at the start) and one row per completed
\* append.
C4_NoLostUpdate ==
  (overlapped /\ pc \in {"idle", "done"} /\ pending = 0 /\ appendsFailed = 0
     /\ appendsDone >= 2) =>
    Len(DataRows(file)) = appendsDone

\* C5: a request answered with the success response has written the ledger
\* once, after its create/update call returned, and the write added exactly one
\* row, its own, after the rows the append kept.
C5_SuccessAppendedOnceAfterUpsert ==
  (pc = "done" /\ status = 200) =>
    /\ writes = 1
    /\ upsertAtWrite = "returned"
    /\ fileExists
    /\ Len(file) = Len(ReadRows(ledgerBefore.records)) + 2
    /\ file[Len(file)] = NewRow(body)

C5_Witness ==
  /\ pc = "done"
  /\ status = 200
  /\ writes = 1
  /\ Len(outcomes) = 2
  /\ Len(ledgerBefore.records) > 1

\* C6 as stated: an attempt that ends in a transport error or in any non-2xx
\* response is a failed attempt, and failed attempts are retried: a response is
\* returned only after failed attempts each followed by its delay, and the call
\* raises only after three failed attempts.
C6_Non2xxRetried ==
  /\ retried = "returned" =>
       /\ ~FailedOrNon2xx(outcomes[Len(outcomes)])
       /\ \A i \in 1..(Len(outcomes) - 1) : FailedOrNon2xx(outcomes[i])
       /\ Len(sleeps) = Len(outcomes) - 1
  /\ retried = "raised" =>
       /\ Len(outcomes) = MaxAttempts
       /\ \A i \in 1..Len(outcomes) : FailedOrNon2xx(outcomes[i])

\* C6, amended: with a failed attempt being a transport error or a 4xx/5xx
\* response (the two are handled alike), a call that fails twice and then
\* succeeds returns after exactly the two delays 0.5 s and 1.0 s, and a call
\* that always fails raises after exactly 3 attempts and those two delays.
C6_RetryPolicy ==
  /\ retried = "returned" =>
       /\ ~FailedAttempt(outcomes[Len(outcomes)])
       /\ \A i \in 1..(Len(outcomes) - 1) : FailedAttempt(outcomes[i])
       /\ sleeps = [i \in 1..(Len(outcomes) - 1) |-> 5 * i]
       /\ (Len(outcomes) = 3 => sleeps = <<5, 10>>)
  /\ retried = "raised" =>
       /\ Len(outcomes) = 3
       /\ \A i \in 1..Len(outcomes) : FailedAttempt(outcomes[i])
       /\ sleeps = <<5, 10>>
  /\ (retried = "none" /\ pc = "request_with_retry") =>
       /\ Len(outcomes) = attempt
       /\ Len(outcomes) < 3
       /\ \A i \in 1..Len(outcomes) : FailedAttempt(outcomes[i])
       /\ sleeps = [i \in 1..Len(outcomes) |-> 5 * i]

C6_Witness ==
  /\ retried = "returned"
  /\ outcomes = <<"transport", "5xx", "2xx">>
  /\ sleeps = <<5, 10>>
  /\ upsert = "returned"

\* C7: when all 3 attempts of the create/update call fail, the request is
\* answered 500 with the error message and the ledger is as it was before the
\* request.
C7_ExhaustionIs500NoLedgerWrite ==
  RetryExhausted =>
    /\ pc = "done"
    /\ status = 500
    /\ error # None
    /\ writes = 0
    /\ Ledger = ledgerBefore

C7_Witness ==
  /\ RetryExhausted
  /\ pc = "done"
  /\ status = 500
  /\ Len(file) > 1

\* C8: when send_welcome_email raises, the request is still answered with the
\* success response and its ledger row is appended.
C8_NotificationFailureIgnored ==
  email = "raised" =>
    /\ status \in {0, 200}
    /\ (pc = "done" => (status = 200 /\ writes = 1))

\* C9: the data rows of the ledger before any step are a prefix of the data
\* rows after it, and a successful append puts its row last.
C9_RowsOnlyAppended ==
  [][/\ IsPrefix(DataRows(file), DataRows(file'))
     /\ (writes' = writes + 1 =>
           DataRows(file')[Len(DataRows(file'))] = NewRow(body))]_vars

\* C10: after N requests answered with success in a row, get_sales_row_count
\* reports the count it reported before them plus N.
C10_RowCountGrowsByN ==
  pc \in {"idle", "done"} =>
    get_sales_row_count(fileExists, file) = runBase + runLen

\* The request's create/update call returned, its notification was sent and
\* its append_to_sales_csv raised (the handler ended with no ledger write).
AppendRaisedAfterUpsert ==
  /\ pc = "done"
  /\ upsert = "returned"
  /\ email = "sent"
  /\ writes = 0

\* C11: when the ledger append raises after the remote upsert succeeded, the
\* request is answered 500 with the error, never with the success response, and
\* the remote write stands: the answered attempt is the last call the request
\* made to the platform, no compensating call follows it.
C11_AppendFailureIs500UpsertKept ==
  AppendRaisedAfterUpsert =>
    /\ status = 500
    /\ error # None
    /\ user_action = None
    /\ retried = "returned"
    /\ Len(calls) = 1
    /\ ~FailedAttempt(outcomes[Len(outcomes)])
    /\ \A i \in 1..(Len(outcomes) - 1) : FailedAttempt(outcomes[i])

C11_Witness ==
  /\ AppendRaisedAfterUpsert
  /\ status = 500
  /\ outcomes = <<"2xx">>
  /\ Len(ledgerBefore.records) > 1
  /\ file = <<>>

\* C12: every request whose handler has ended was answered with exactly one
\* of 200, 400 and 500; 400 and 500 carry an error message, and an exception
\* after the decoding is answered 500.
C12_EveryRequestAnswered ==
  pc = "done" =>
    /\ status \in {200, 400, 500}
    /\ (status \in {400, 500} <=> error # None)
    /\ (~BadBody => status \in {200, 500})

\* The rows after the first line that have the five fields of a ledger record.
WellFormedRows(f) == SelectSeq(DataRows(f), LAMBDA r : Len(r) = 5)

\* C13: an append to an existing ledger file drops the malformed rows, keeps
\* every well-formed row in its original order and puts the new row last.
C13_AppendKeepsWellFormedRows ==
  [][writes' = writes + 1 =>
       DataRows(file') = WellFormedRows(file) \o <<NewRow(body)>>]_vars

\* The ledger held a row for the request's email when its handler started: a
\* purchase with the same email was processed before.
EmailSeenBefore ==
  /\ EmailPresent
  /\ \E i \in 1..Len(DataRows(ledgerBefore.records)) :
        /\ Len(DataRows(ledgerBefore.records)[i]) = 5
        /\ DataRows(ledgerBefore.records)[i][2] = body.txn.email

\* C14: a request whose email was posted before finds the user: it calls
\* update_user, not create_user, is answered user_action "updated", and the
\* row count it reports is one more than before.
C14_SecondPostUpdates ==
  (EmailSeenBefore /\ ProcessPurchaseRan) =>
    /\ calls = <<"update_user">>
    /\ (status = 200 =>
          /\ user_action = "updated"
          /\ rows_written = Len(DataRows(ledgerBefore.records)) + 1)

\* C15: an event of the action shape whose action is not buy_product is
\* answered 200 and has no side effect: no remote call, no ledger write.
C15_OtherActionIgnored ==
  (body.kind = "object" /\ body.action \notin {None, "buy_product"}
     /\ pc \notin {"idle", "do_POST"}) =>
    /\ calls = <<>>
    /\ outcomes = <<>>
    /\ writes = 0
    /\ Ledger = ledgerBefore
    /\ (pc = "done" => (status = 200 /\ user_action = None))

\* C16: get_sales_row_count returns the number of data rows of the ledger,
\* the header excluded, in every ledger state, and rows_written of a success
\* response is that number right after the request's append.
C16_RowCountIsDataRows ==
  /\ get_sales_row_count(fileExists, file) = Len(DataRows(file))
  /\ ((pc = "done" /\ status = 200) => rows_written = Len(DataRows(file)))

\* The header row of the ledger layout the report reader names.
ReportColumns == <<"date", "email", "purchase_type", "amount">>

\* C17: after a successful append the ledger is the header row
\* date,email,purchase_type,amount followed by data rows of the four fields
\* (date, email, purchaseType, amount).
C17_LedgerLayout ==
  (writes = 1 /\ pc \in {"respond", "done"}) =>
    /\ file[1] = ReportColumns
    /\ \A i \in 2..Len(file) : Len(file[i]) = Len(ReportColumns)

\* C18: the delay before the Nth retry is 0.5 x N seconds; there is one delay
\* per failed attempt that is not the final one and no other; the failure of
\* the third attempt is raised with no delay and no further attempt.
C18_LinearBackoff ==
  /\ \A n \in 1..Len(sleeps) : sleeps[n] = 5 * n
  /\ Len(sleeps) <= 2
  /\ Len(sleeps) =
       Cardinality({i \in 1..Len(outcomes) : FailedAttempt(outcomes[i]) /\ i < 3})
  /\ (retried = "raised" =>
        (pc = "done" /\ Len(outcomes) = 3 /\ sleeps = <<5, 10>> /\ attempt = 2))

C18_Witness ==
  /\ retried = "raised"
  /\ outcomes = <<"4xx", "transport", "5xx">>
  /\ sleeps = <<5, 10>>
  /\ status = 500

\* C20: one request makes at most 3 HTTP attempts against the user platform,
\* every attempt before its last one failed (so none follows a successful
\* one and at most one succeeds), and it makes at most one create/update call.
C20_AtMostOneRemoteWrite ==
  /\ Len(outcomes) <= 3
  /\ \A i \in 1..(Len(outcomes) - 1) : FailedAttempt(outcomes[i])
  /\ Cardinality({i \in 1..Len(outcomes) : outcomes[i] = "2xx"}) <= 1
  /\ Len(calls) <= 1
  /\ (retried = "returned" => pc # "request_with_retry")

C20_Witness ==
  /\ outcomes = <<"5xx", "2xx">>
  /\ retried = "returned"
  /\ pc = "done"
  /\ status = 200
  /\ calls = <<"create_user">>

\* Connections the server has taken from the backlog so far.
Accepted == arrived - pending

\* Each request's handler, once started, reaches its end.
HandlerTerminates ==
  \A n \in 1..MaxRequests :
    (pc = "do_POST" /\ Accepted = n) ~> (pc = "done" /\ Accepted = n)

\* C19: every request whose processing started reaches the end of its
\* handler, and the handler ends with a response 200, 400 or 500.
C19_EveryRequestReachesResponse ==
  /\ HandlerTerminates
  /\ [][(pc # "done" /\ pc' = "done") => status' \in {200, 400, 500}]_vars

====
